---------------------------- MODULE Spec2Model ----------------------------
(***************************************************************************)
(* A model of dxfapi.py (diegoromie/editdxf): block purging with its       *)
(* dependency resolver, layer pruning and remapping, INSERT explosion,     *)
(* revision-cloud reconstruction and the adjust_layer batch driver.        *)
(*                                                                         *)
(* A document is modelled by its block table (a sequence of named entity   *)
(* lists in insertion order, "*Model_Space" being the primary space), its  *)
(* layer table and the entities of the primary space.  Every function of   *)
(* the source is an operator computed the way the code computes it; each   *)
(* specification below draws the function's inputs in its Init and applies *)
(* the function in its actions.                                            *)
(***************************************************************************)
EXTENDS Integers, Sequences, FiniteSets, TLC

VARIABLES
    doc_blocks,      \* doc.blocks: sequence of [name, ents], insertion order
    layers,          \* doc.layers: layer name -> [color, lineweight]
    msp,             \* doc.modelspace(): the entities of the primary space
    setIter,         \* iteration order of each graph[block] set (unspecified in Python)
    purge_pc,        \* "ready" | "purged": position of the purge_blocks call
    resolved,        \* what get_deletion_order did: [raised, order]
    attempts,        \* block names handed to doc.blocks.delete_block, in order
    blocks_in,       \* the block table purge_blocks was called on
    last,            \* the last layer call and its inputs: [op, row, layers, msp, prev]
    explode_pc,      \* "loop" | "done": position in explode_drawing
    space_in,        \* the primary space explode_drawing / create_revcloud was called on
    revcloud_layers, \* the layers eligible for cloud reconstruction
    cloud_pc,        \* "ready" | "done": position of the create_revcloud call
    batch            \* adjust_layer: [files, logo, table, i, pc, saved, fails]

purge_vars == <<setIter, purge_pc, resolved, attempts, blocks_in>>

layer_vars == <<last>>

explode_vars == <<explode_pc, space_in>>

cloud_vars == <<revcloud_layers, cloud_pc>>

vars == <<doc_blocks, layers, msp, purge_vars, layer_vars, explode_vars, cloud_vars, batch>>

-----------------------------------------------------------------------------
(* Bounds *)

MaxBlockInserts == 2

MaxEntities == 2

MaxNested == 1

MaxFiles == 2

-----------------------------------------------------------------------------
(* Generic helpers for Python lists and sets *)

Range(s) == {s[i] : i \in 1..Len(s)}

Reverse(s) == [i \in 1..Len(s) |-> s[Len(s) + 1 - i]]

SelectIdx(s, x) == CHOOSE i \in 1..Len(s) : s[i] = x

SeqsUpTo(S, n) == UNION {[1..k -> S] : k \in 0..n}

\* all orders in which a set may be iterated
Perms(S) == {p \in [1..Cardinality(S) -> S] : Range(p) = S}

\* all duplicate-free lists over S
InjSeqs(S) == UNION {Perms(T) : T \in SUBSET S}

RECURSIVE DepFuns(_, _)
\* all functions f on D with f[d] \in Perms(G[d])
DepFuns(D, G) ==
    IF D = {} THEN {<<>>}
    ELSE LET d == CHOOSE x \in D : TRUE
         IN  {(d :> p) @@ f : p \in Perms(G[d]), f \in DepFuns(D \ {d}, G)}

-----------------------------------------------------------------------------
(* Entities *)

Insert(n) == [type |-> "INSERT", name |-> n]

Line == [type |-> "LINE", name |-> ""]

-----------------------------------------------------------------------------
(* LAYERS *)

ReservedLayers == <<"Defpoints", "0">>

\* the lineweight doc.layers.add gives a layer it creates (LINEWEIGHT_DEFAULT)
DefaultLineweight == -3

\* an empty spreadsheet cell, and the value fillna puts in its place
Empty == <<>>

Cell(v) == <<v>>

FillNa(cell, default) == IF cell = Empty THEN default ELSE cell[1]

FallbackLayer == "fallback"

InheritColor == 256

ZeroLineweight == 0

\* [layer.dxf.name for layer in doc.layers]
list_current_layers(lay) == DOMAIN lay

\* if dest_layer not in doc.layers: doc.layers.add(name=dest_layer, color=dest_color)
create_layer(lay, dest_layer, dest_color) ==
    IF dest_layer \notin DOMAIN lay
    THEN (dest_layer :> [color |-> dest_color, lineweight |-> DefaultLineweight]) @@ lay
    ELSE lay

\* int(dest_lineweight * 10), dest_lineweight given in hundredths of a unit
LineweightUnits(dest_lineweight) == dest_lineweight \div 10

\* for layer in doc.layers: if layer.dxf.name == dest_layer: layer.dxf.lineweight = ...
change_lineweight(lay, dest_layer, dest_lineweight) ==
    [n \in DOMAIN lay |->
        IF n = dest_layer
        THEN [lay[n] EXCEPT !.lineweight = LineweightUnits(dest_lineweight)]
        ELSE lay[n]]

\* used_layers, with "Defpoints" and "0" appended when no entity names them
UsedLayers(space) ==
    LET used == {space[i].layer : i \in 1..Len(space)}
    IN  used \cup {ReservedLayers[i] : i \in {j \in 1..Len(ReservedLayers) : ReservedLayers[j] \notin used}}

\* faulty variant: layers removed while the table is being iterated, so that
\* only the first unused layer goes
RemoveFirstUnused(lay, space) ==
    LET unused == {n \in DOMAIN lay : n \notin UsedLayers(space)}
    IN  IF unused = {} THEN lay
        ELSE LET first == CHOOSE n \in unused : TRUE
             IN  [n \in DOMAIN lay \ {first} |-> lay[n]]

\* faulty variant: "0" is not preserved
RemoveUnusedKeepDefpoints(lay, space) ==
    LET used == {space[i].layer : i \in 1..Len(space)} \cup {"Defpoints"}
    IN  [n \in {m \in DOMAIN lay : m \in used} |-> lay[n]]

\* unused = [layer for layer in all_layers if layer not in used_layers]; remove each
remove_unused_layers(lay, space) ==
    LET all_layers == DOMAIN lay
        used_layers == UsedLayers(space)
        unused == {layer \in all_layers : layer \notin used_layers}
    IN  [n \in all_layers \ unused |-> lay[n]]

\* for entity in msp: if entity.dxf.layer == layer: entity.dxf.layer = dest_layer
change_layer(space, layer, dest_layer) ==
    [i \in 1..Len(space) |->
        IF space[i].layer = layer THEN [space[i] EXCEPT !.layer = dest_layer] ELSE space[i]]

\* the fillna defaults of adjust_layer: newLayer, colorID, lineweight
RowDefaults(row) ==
    [currentLayer |-> row.currentLayer,
     newLayer     |-> FillNa(row.newLayer, FallbackLayer),
     colorID      |-> FillNa(row.colorID, InheritColor),
     lineweight   |-> FillNa(row.lineweight, ZeroLineweight)]

\* faulty variant: the destination layer is (re)created with the row's color
\* even when it exists
ApplyRowOverwritingColor(lay, space, row) ==
    LET r == RowDefaults(row)
        created == (r.newLayer :> [color |-> r.colorID, lineweight |-> DefaultLineweight]) @@ lay
    IN  [layers |-> change_lineweight(created, r.newLayer, r.lineweight),
         msp    |-> change_layer(space, r.currentLayer, r.newLayer)]

\* one turn of the remap loop: create_layer, change_layer, change_lineweight
ApplyRow(lay, space, row) ==
    LET r == RowDefaults(row)
        created == create_layer(lay, r.newLayer, r.colorID)
    IN  [layers |-> change_lineweight(created, r.newLayer, r.lineweight),
         msp    |-> change_layer(space, r.currentLayer, r.newLayer)]

-----------------------------------------------------------------------------
(* BLOCKS *)

BlockNames == {"A", "B", "CC"}

ModelSpaceName == "*Model_Space"

\* block_name.upper().startswith(("*MODEL_SPACE", "*PAPER_SPACE"))
IsLayoutBlock(block_name) ==
    block_name \in {"*Model_Space", "*Paper_Space", "*Paper_Space0"}

RECURSIVE get_removable_blocks(_)
get_removable_blocks(blocks) ==
    IF blocks = <<>> THEN <<>>
    ELSE IF IsLayoutBlock(Head(blocks).name)
         THEN get_removable_blocks(Tail(blocks))
         ELSE <<Head(blocks).name>> \o get_removable_blocks(Tail(blocks))

\* doc.blocks.get(block)
BlockDef(blocks, block) == blocks[CHOOSE i \in 1..Len(blocks) : blocks[i].name = block].ents

\* graph[block]: the removable blocks named by the INSERT entities of block
BuildGraph(blocks, removable) ==
    [block \in Range(removable) |->
        {e.name : e \in {x \in Range(BlockDef(blocks, block)) :
                            x.type = "INSERT" /\ x.name \in Range(removable)}}]

RECURSIVE dfs(_, _, _, _)
RECURSIVE dfsNeighbors(_, _, _, _)
\* st = [visited, order, raised]; visited[n] = 0 stands for "n not in visited"
dfs(graph, iter, node, st) ==
    IF st.raised THEN st
    ELSE IF st.visited[node] # 0
         THEN IF st.visited[node] = 1 THEN [st EXCEPT !.raised = TRUE] ELSE st
         ELSE LET st1 == [st EXCEPT !.visited[node] = 1]
                  st2 == dfsNeighbors(graph, iter, iter[node], st1)
              IN  IF st2.raised THEN st2
                  ELSE [st2 EXCEPT !.visited[node] = 2,
                                   !.order = Append(st2.order, node)]

dfsNeighbors(graph, iter, neighbors, st) ==
    IF neighbors = <<>> \/ st.raised THEN st
    ELSE dfsNeighbors(graph, iter, Tail(neighbors), dfs(graph, iter, Head(neighbors), st))

RECURSIVE dfsRoots(_, _, _, _)
\* for node in graph: if node not in visited: dfs(node)
dfsRoots(graph, iter, nodes, st) ==
    IF nodes = <<>> \/ st.raised THEN st
    ELSE dfsRoots(graph, iter, Tail(nodes),
                  IF st.visited[Head(nodes)] = 0
                  THEN dfs(graph, iter, Head(nodes), st) ELSE st)

\* faulty variant: the finishing order returned without order.reverse()
FinishOrderUnreversed(st) == [raised |-> st.raised, order |-> IF st.raised THEN <<>> ELSE st.order]

\* order.reverse(); return order
FinishOrder(st) == [raised |-> st.raised, order |-> IF st.raised THEN <<>> ELSE Reverse(st.order)]

get_deletion_order(blocks, removable, iter) ==
    LET graph == BuildGraph(blocks, removable)
        st0   == [visited |-> [n \in Range(removable) |-> 0], order |-> <<>>, raised |-> FALSE]
    IN  FinishOrder(dfsRoots(graph, iter, removable, st0))

RECURSIVE InsertByLen(_, _)
\* stable insertion of x into a list sorted by ascending length
InsertByLen(x, s) ==
    IF s = <<>> THEN <<x>>
    ELSE IF Len(Head(s)) <= Len(x) THEN <<Head(s)>> \o InsertByLen(x, Tail(s))
         ELSE <<x>> \o s

RECURSIVE StableSortByLen(_)
StableSortByLen(s) ==
    IF s = <<>> THEN <<>>
    ELSE InsertByLen(s[Len(s)], StableSortByLen(SubSeq(s, 1, Len(s) - 1)))

\* faulty variant: sorted(removable, key=len)[::-1], which reverses ties
FallbackUnstable(removable) == Reverse(StableSortByLen(removable))

\* sorted(removable, key=len, reverse=True): reverse, stable sort, reverse
FallbackOrder(removable) == Reverse(StableSortByLen(Reverse(removable)))

\* doc.blocks.delete_block(name) refuses a block some INSERT still names,
\* in the primary space or in a block definition
BlockInUse(blocks, space, name) ==
    \/ \E e \in Range(space) : e.type = "INSERT" /\ e.name = name
    \/ \E i \in 1..Len(blocks) : \E e \in Range(blocks[i].ents) :
          e.type = "INSERT" /\ e.name = name

RECURSIVE DeleteBlocks(_, _, _)
\* for block_name in deletion_order: try delete_block except: log
DeleteBlocks(blocks, space, deletion_order) ==
    IF deletion_order = <<>> THEN blocks
    ELSE LET n    == Head(deletion_order)
             left == IF BlockInUse(blocks, space, n) THEN blocks
                     ELSE SelectSeq(blocks, LAMBDA b : b.name # n)
         IN  DeleteBlocks(left, space, Tail(deletion_order))

\* the deletion_order purge_blocks iterates
PurgeOrder(blocks, iter) ==
    LET removable == get_removable_blocks(blocks)
        res       == get_deletion_order(blocks, removable, iter)
    IN  IF res.raised THEN FallbackOrder(removable) ELSE res.order

purge_blocks(blocks, space, iter) == DeleteBlocks(blocks, space, PurgeOrder(blocks, iter))

-----------------------------------------------------------------------------
(* UTILITIES *)

\* any(entity.dxftype() == "INSERT" for entity in msp)
HasInsert(space) == \E i \in 1..Len(space) : space[i].type = "INSERT"

RECURSIVE RemoveFirst(_, _)
\* msp.delete_entity(entity)
RemoveFirst(space, entity) ==
    IF space = <<>> THEN <<>>
    ELSE IF Head(space) = entity THEN Tail(space)
         ELSE <<Head(space)>> \o RemoveFirst(Tail(space), entity)

\* faulty variant: the exploded INSERT is left in the space
ExplodeKeepingInsert(space, blocks, entity) == space \o BlockDef(blocks, entity.name)

\* _ = list(entity.explode()); msp.delete_entity(entity): the entities of the
\* referenced block are added to the space, then the INSERT is deleted
ExplodeOne(space, blocks, entity) ==
    RemoveFirst(space \o BlockDef(blocks, entity.name), entity)

RECURSIVE ExplodeEach(_, _, _)
\* for entity in list(msp): if entity.dxftype() == "INSERT": ...
ExplodeEach(snapshot, space, blocks) ==
    IF snapshot = <<>> THEN space
    ELSE ExplodeEach(Tail(snapshot),
                     IF Head(snapshot).type = "INSERT"
                     THEN ExplodeOne(space, blocks, Head(snapshot)) ELSE space,
                     blocks)

\* one turn of the while loop of explode_drawing
ExplodePassOf(space, blocks) == ExplodeEach(space, space, blocks)

RECURSIVE explode_drawing(_, _)
\* the whole loop; defined only where the loop ends
explode_drawing(space, blocks) ==
    IF HasInsert(space) THEN explode_drawing(ExplodePassOf(space, blocks), blocks) ELSE space

-----------------------------------------------------------------------------
(* REVISION CLOUDS *)

\* arc_radius = 6.0
ArcRadius == 6

\* ezdxf.revcloud.add_entity(msp, polyline, arc_radius) followed by
\* revcloud.dxf.layer = layer: a closed LWPOLYLINE tagged as a revision cloud
Revcloud(polyline, layer, arc_radius) ==
    [type |-> "LWPOLYLINE", name |-> "", layer |-> layer, is_closed |-> TRUE,
     vertices |-> polyline, revcloud |-> arc_radius, style |-> "BYLAYER"]

IsClosedBoundary(entity) == entity.type = "LWPOLYLINE" /\ entity.is_closed

\* all_layers: the layer of EVERY entity on an eligible layer, in space order
CloudLayers(space, eligible) ==
    LET on == SelectSeq(space, LAMBDA e : e.layer \in eligible)
    IN  [i \in 1..Len(on) |-> on[i].layer]

\* all_polylines: the vertices of the closed LWPOLYLINEs on eligible layers
CloudPolylines(space, eligible) ==
    LET closed == SelectSeq(space, LAMBDA e : e.layer \in eligible /\ IsClosedBoundary(e))
    IN  [i \in 1..Len(closed) |-> closed[i].vertices]

Min(a, b) == IF a <= b THEN a ELSE b

\* pass 1 deletes the closed boundaries on eligible layers; pass 2 adds one
\* cloud per pair of zip(all_polylines, all_layers)
create_revcloud(space, eligible, arc_radius) ==
    LET all_polylines == CloudPolylines(space, eligible)
        all_layers    == CloudLayers(space, eligible)
        kept          == SelectSeq(space, LAMBDA e : ~(e.layer \in eligible /\ IsClosedBoundary(e)))
    IN  kept \o [k \in 1..Min(Len(all_polylines), Len(all_layers)) |->
                    Revcloud(all_polylines[k], all_layers[k], arc_radius)]

-----------------------------------------------------------------------------
(* LOGOS and the per-document steps of adjust_layer *)

\* the one order in which graph[block] can be iterated when every block
\* refers to at most one removable block
IterOf(blocks) ==
    LET removable == get_removable_blocks(blocks)
    IN  CHOOSE f \in DepFuns(Range(removable), BuildGraph(blocks, removable)) : TRUE

RECURSIVE RemapLoop(_, _, _, _)
\* for layer in layers_to_modify["currentLayer"]: row = the first row of
\* that layer; create_layer, change_layer, change_lineweight
RemapLoop(todo, selected, lay, space) ==
    IF todo = <<>> THEN [layers |-> lay, msp |-> space]
    ELSE LET layer == Head(todo).currentLayer
             row   == selected[CHOOSE k \in 1..Len(selected) :
                          /\ selected[k].currentLayer = layer
                          /\ \A j \in 1..(k - 1) : selected[j].currentLayer # layer]
             after == ApplyRow(lay, space, row)
         IN  RemapLoop(Tail(todo), selected, after.layers, after.msp)

\* layers_to_modify = df[df["currentLayer"].isin(layers)], then the loop
RemapTable(table, lay, space) ==
    LET present  == list_current_layers(lay)
        selected == SelectSeq(table, LAMBDA row : row.currentLayer \in present)
    IN  RemapLoop(selected, selected, lay, space)

\* entity.dxf.color = 256; entity.dxf.lineweight = -1; entity.dxf.linetype = "BYLAYER"
ResetStyles(space) == [i \in 1..Len(space) |-> [space[i] EXCEPT !.style = "BYLAYER"]]

\* the entities of a sequence whose copy succeeded (a failed copy is logged and skipped)
Copied(source, ok) ==
    LET at == SelectSeq([i \in 1..Len(source) |-> i], LAMBDA i : ok[i])
    IN  [k \in 1..Len(at) |-> source[at[k]]]

\* change_logos: the source is exploded and purged, the IMAGE entities of
\* the target are deleted, missing linetypes and text styles are added to the
\* target, and the entities of the source are copied into the target space.
\* The layer table of the target is not touched.
change_logos(source, target, ok) ==
    LET msp_source == explode_drawing(source.msp, source.blocks)
    IN  [target EXCEPT
            !.msp = SelectSeq(target.msp, LAMBDA e : e.type # "IMAGE") \o Copied(msp_source, ok),
            !.linetypes = target.linetypes \cup source.linetypes,
            !.styles = target.styles \cup source.styles]

-----------------------------------------------------------------------------
(* Each specification exercises one part of the program; the variables of  *)
(* the other parts are parked and left unchanged.                          *)

PurgeParked ==
    /\ setIter = <<>> /\ purge_pc = "off" /\ resolved = <<>> /\ attempts = <<>> /\ blocks_in = <<>>

LayerParked == last = <<>>

ExplodeParked == explode_pc = "off" /\ space_in = <<>>

CloudParked == revcloud_layers = {} /\ cloud_pc = "off"

BatchParked == batch = <<>>

-----------------------------------------------------------------------------
(* Specification SpecPurge: purge_blocks on an arbitrary small block table *)

\* the INSERT entities a block definition may hold
BlockInserts == <<Insert("A"), Insert("B"), Insert("CC")>>

\* entity lists of a block: empty, or a LINE followed by up to MaxBlockInserts
\* INSERTs.  The INSERTs are listed up to reordering: the resolver reads them
\* only into the set graph[block], whose iteration order is setIter
BlockContents ==
    {<<>>} \cup
    {<<Line>> \o [i \in 1..Len(ix) |-> BlockInserts[ix[i]]] :
        ix \in {s \in SeqsUpTo(1..Len(BlockInserts), MaxBlockInserts) :
                    \A i \in 1..(Len(s) - 1) : s[i] <= s[i + 1]}}

\* a block table: "*Model_Space" first (its entities are kept in msp), then
\* the blocks in insertion order
BlockTable(names, contents) ==
    <<[name |-> ModelSpaceName, ents |-> <<>>]>>
        \o [i \in 1..Len(names) |-> [name |-> names[i], ents |-> contents[i]]]

PurgeInit ==
    /\ \E names \in InjSeqs(BlockNames) :
       \E contents \in [1..Len(names) -> BlockContents] :
            doc_blocks = BlockTable(names, contents)
    \* purge_blocks runs after explode_drawing: no INSERT in the primary space
    /\ msp = <<Line>>
    /\ setIter \in LET removable == get_removable_blocks(doc_blocks)
                   IN  DepFuns(Range(removable), BuildGraph(doc_blocks, removable))
    /\ purge_pc = "ready"
    /\ resolved = [raised |-> FALSE, order |-> <<>>]
    /\ attempts = <<>>
    /\ blocks_in = doc_blocks
    /\ layers = <<>>
    /\ LayerParked /\ ExplodeParked /\ CloudParked /\ BatchParked

PurgeBlocks ==
    /\ purge_pc = "ready"
    /\ resolved' = get_deletion_order(doc_blocks, get_removable_blocks(doc_blocks), setIter)
    /\ attempts' = PurgeOrder(doc_blocks, setIter)
    /\ doc_blocks' = DeleteBlocks(doc_blocks, msp, attempts')
    /\ purge_pc' = "purged"
    /\ UNCHANGED <<setIter, blocks_in>>
    /\ UNCHANGED <<layers, msp, layer_vars, explode_vars, cloud_vars, batch>>

SpecPurge == PurgeInit /\ [][PurgeBlocks]_vars

-----------------------------------------------------------------------------
(* Properties of get_deletion_order and purge_blocks (under SpecPurge) *)

Removable0 == get_removable_blocks(blocks_in)

\* the edges A -> B: removable block A holds an INSERT naming removable block B
RefEdges ==
    LET rem == Range(Removable0)
    IN  {ab \in rem \X rem :
            \E e \in Range(BlockDef(blocks_in, ab[1])) : e.type = "INSERT" /\ e.name = ab[2]}

RECURSIVE ReachIn(_, _, _)
\* the blocks reached from the set S in one to k steps along edges
ReachIn(edges, S, k) ==
    IF k = 0 \/ S = {} THEN {}
    ELSE LET next == {ab[2] : ab \in {e \in edges : e[1] \in S}}
         IN  next \cup ReachIn(edges, next, k - 1)

Cyclic(edges, rem) == \E a \in Range(rem) : a \in ReachIn(edges, {a}, Len(rem))

HasCycle == Cyclic(RefEdges, Removable0)

IsolatedIn(edges, a) == \A e \in edges : e[1] # a /\ e[2] # a

Occurrences(s, x) == Cardinality({i \in 1..Len(s) : s[i] = x})

ExactlyOnceEach(s, names) ==
    /\ Range(s) = Range(names)
    /\ \A x \in Range(names) : Occurrences(s, x) = 1

ChainExample ==
    blocks_in = BlockTable(<<"A", "B", "CC">>,
                           <<<<Line, Insert("B")>>, <<Line, Insert("CC")>>, <<>>>>)

\* C1: on an acyclic reference graph get_deletion_order returns every
\* removable block exactly once, with A before B for every edge A -> B; the
\* chain A -> B -> CC over removable [A, B, CC] gives [A, B, CC].
C1_DependentsFirst ==
    purge_pc = "purged" =>
        LET rem == Removable0
            edges == RefEdges
        IN  ~Cyclic(edges, rem) =>
                /\ ~resolved.raised
                /\ ExactlyOnceEach(resolved.order, rem)
                /\ \A e \in edges :
                      SelectIdx(resolved.order, e[1]) < SelectIdx(resolved.order, e[2])
                /\ ChainExample => resolved.order = <<"A", "B", "CC">>

\* an acyclic graph on three blocks in which one block refers to two others
C1_Witness ==
    /\ purge_pc = "purged"
    /\ ~HasCycle
    /\ Len(Removable0) = 3
    /\ \E a, b, c \in Range(Removable0) :
          b # c /\ {<<a, b>>, <<a, c>>, <<b, c>>} \subseteq RefEdges
    /\ Len(resolved.order) = 3

LenDescStable(s, original) ==
    \A i, j \in 1..Len(s) :
        i < j =>
            \/ Len(s[i]) > Len(s[j])
            \/ Len(s[i]) = Len(s[j]) /\ SelectIdx(original, s[i]) < SelectIdx(original, s[j])

\* C2: the resolver raises exactly when the removable graph has a cycle;
\* purge_blocks then still returns, having attempted every removable block
\* in order of name length descending, equal lengths in removable order.
C2_CycleFallback ==
    purge_pc = "purged" =>
        LET rem == Removable0
            cyclic == Cyclic(RefEdges, rem)
        IN  /\ resolved.raised <=> cyclic
            /\ cyclic =>
                  /\ ExactlyOnceEach(attempts, rem)
                  /\ LenDescStable(attempts, rem)

\* a mutual pair of equally long names listed before a longer name
C2_Witness ==
    /\ purge_pc = "purged"
    /\ resolved.raised
    /\ Removable0 = <<"B", "A", "CC">>
    /\ RefEdges = {<<"A", "B">>, <<"B", "A">>}
    /\ attempts = <<"CC", "B", "A">>

\* C9 as stated: isolated blocks come out in the insertion order of removable
C9_IsolatedInInsertionOrder ==
    (purge_pc = "purged" /\ ~resolved.raised) =>
        LET rem == Removable0
            edges == RefEdges
        IN  \A i, j \in 1..Len(rem) :
                (i < j /\ IsolatedIn(edges, rem[i]) /\ IsolatedIn(edges, rem[j]))
                    => SelectIdx(resolved.order, rem[i]) < SelectIdx(resolved.order, rem[j])

\* C9 (amended): in the returned list every isolated block appears exactly
\* once, and the isolated blocks appear relative to one another in the
\* REVERSE of the insertion order of the removable list.
C9_IsolatedInReverseOrder ==
    (purge_pc = "purged" /\ ~resolved.raised) =>
        LET rem == Removable0
            edges == RefEdges
        IN  /\ \A i \in 1..Len(rem) :
                  IsolatedIn(edges, rem[i]) => Occurrences(resolved.order, rem[i]) = 1
            /\ \A i, j \in 1..Len(rem) :
                  (i < j /\ IsolatedIn(edges, rem[i]) /\ IsolatedIn(edges, rem[j]))
                      => SelectIdx(resolved.order, rem[i]) > SelectIdx(resolved.order, rem[j])

\* three isolated blocks, returned last-listed first
C9_Witness ==
    /\ purge_pc = "purged"
    /\ ~resolved.raised
    /\ Removable0 = <<"B", "CC", "A">>
    /\ RefEdges = {}
    /\ resolved.order = <<"A", "CC", "B">>

-----------------------------------------------------------------------------
(* Specification SpecLayers: pruning and remap rows on a small document *)

LayerNames == {"0", "Defpoints", "X", "fallback"}

\* the styling of a layer read from the file
FileStyle == [color |-> 7, lineweight |-> 25]

LayerTables ==
    UNION {[present -> {FileStyle}] : present \in SUBSET LayerNames}

OnLayer(n) == [type |-> "LINE", layer |-> n]

\* rows of the mapping table: each optional cell empty or filled in
RemapRows ==
    {[currentLayer |-> c, newLayer |-> n, colorID |-> s[1], lineweight |-> s[2]] :
        c \in LayerNames, n \in {Empty, Cell("X")},
        s \in {<<Empty, Empty>>, <<Cell(7), Empty>>, <<Cell(7), Cell(250)>>}}

NoRow == [currentLayer |-> "", newLayer |-> Empty, colorID |-> Empty, lineweight |-> Empty]

LayersInit ==
    /\ layers \in LayerTables
    /\ msp \in SeqsUpTo({OnLayer(n) : n \in LayerNames}, MaxEntities)
    /\ last = [op |-> "read", row |-> NoRow, layers |-> layers, msp |-> msp,
                prev |-> [op |-> "none", changed |-> FALSE]]
    /\ doc_blocks = <<>>
    /\ PurgeParked /\ ExplodeParked /\ CloudParked /\ BatchParked

RemoveUnusedLayers ==
    /\ layers' = remove_unused_layers(layers, msp)
    /\ msp' = msp
    /\ last' = [op |-> "prune", row |-> NoRow, layers |-> layers, msp |-> msp, prev |-> [op |-> last.op, changed |-> layers # last.layers]]
    /\ UNCHANGED <<doc_blocks, purge_vars, explode_vars, cloud_vars, batch>>

\* a row of the table is applied only when its currentLayer is a current layer
RemapRow ==
    \E row \in RemapRows :
        /\ row.currentLayer \in list_current_layers(layers)
        /\ LET after == ApplyRow(layers, msp, row)
           IN  /\ layers' = after.layers
               /\ msp' = after.msp
        /\ last' = [op |-> "remap", row |-> row, layers |-> layers, msp |-> msp, prev |-> [op |-> last.op, changed |-> layers # last.layers]]
        /\ UNCHANGED <<doc_blocks, purge_vars, explode_vars, cloud_vars, batch>>

LayersNext == RemoveUnusedLayers \/ RemapRow

SpecLayers == LayersInit /\ [][LayersNext]_vars

-----------------------------------------------------------------------------
(* Properties of remove_unused_layers and of a remap row (under SpecLayers) *)

LayersOf(space) == {space[i].layer : i \in 1..Len(space)}

\* C6: after remove_unused_layers the layer set is (layers before) intersected
\* with (layers named by primary-space entities, plus "Defpoints" and "0"):
\* no reserved layer and no used layer is removed, every other layer is.
C6_PruneExact ==
    last.op = "prune" =>
        /\ DOMAIN layers = DOMAIN last.layers \cap (LayersOf(last.msp) \cup {"Defpoints", "0"})
        /\ \A n \in DOMAIN layers : layers[n] = last.layers[n]

\* both reserved layers survive with no entity on them, an unused layer goes
C6_Witness ==
    /\ last.op = "prune"
    /\ {"Defpoints", "0", "X", "fallback"} \subseteq DOMAIN last.layers
    /\ LayersOf(last.msp) = {"fallback"}
    /\ DOMAIN layers = {"Defpoints", "0", "fallback"}

\* C7: a second remove_unused_layers directly after a first, the entities
\* being the same, deletes no layer.
C7_PruneIdempotent ==
    (last.op = "prune" /\ last.prev.op = "prune") => layers = last.layers

\* the first call removed a layer, the second call found the table as the first left it
C7_Witness ==
    /\ last.op = "prune"
    /\ last.prev.op = "prune"
    /\ last.prev.changed
    /\ DOMAIN last.layers = {"0", "fallback"}
    /\ DOMAIN layers = {"0", "fallback"}
    /\ Len(msp) = 2

AllEmptyRow(row) ==
    row.newLayer = Empty /\ row.colorID = Empty /\ row.lineweight = Empty

MovedToFallback ==
    /\ FallbackLayer \in DOMAIN layers
    /\ Len(msp) = Len(last.msp)
    /\ \A i \in 1..Len(msp) :
          last.msp[i].layer = last.row.currentLayer => msp[i].layer = FallbackLayer
    /\ layers[FallbackLayer].lineweight = 0

\* C8 as stated: color 256 whether or not "fallback" existed before
C8_FallbackAlwaysInherits ==
    (last.op = "remap" /\ AllEmptyRow(last.row)) =>
        /\ MovedToFallback
        /\ layers[FallbackLayer].color = 256

\* C8 (amended): a row with all optional fields empty leaves a layer
\* "fallback" present, every entity that was on the source layer on
\* "fallback", the stored line-weight of "fallback" 0, and its color 256 when
\* "fallback" was absent before; a "fallback" layer that existed keeps its color.
C8_FallbackRow ==
    (last.op = "remap" /\ AllEmptyRow(last.row)) =>
        /\ MovedToFallback
        /\ layers[FallbackLayer].color =
              IF FallbackLayer \in DOMAIN last.layers
              THEN last.layers[FallbackLayer].color ELSE 256

\* an existing "fallback" layer of another color receives the entities of X
C8_Witness ==
    /\ last.op = "remap"
    /\ AllEmptyRow(last.row)
    /\ last.row.currentLayer = "X"
    /\ FallbackLayer \in DOMAIN last.layers
    /\ last.layers[FallbackLayer] = FileStyle
    /\ \E i \in 1..Len(msp) : last.msp[i].layer = "X" /\ msp[i].layer = FallbackLayer
    /\ layers[FallbackLayer] = [color |-> 7, lineweight |-> 0]

-----------------------------------------------------------------------------
(* Specification SpecExplode: the loop of explode_drawing, one turn per step *)

\* entity lists of a block that is exploded: at most MaxNested INSERTs
NestedContents == {c \in BlockContents : Len(c) <= 1 + MaxNested}

\* no acyclic document of these bounds grows the space beyond this; a cyclic
\* one is followed until it does
SpaceCap == MaxEntities * (1 + MaxNested + MaxNested * MaxNested)

ExplodeInit ==
    /\ \E contents \in [1..3 -> NestedContents] :
          doc_blocks = BlockTable(<<"A", "B", "CC">>, contents)
    /\ msp \in SeqsUpTo({Line, Insert("A"), Insert("B"), Insert("CC")}, MaxEntities)
    /\ space_in = msp
    /\ explode_pc = "loop"
    /\ layers = <<>>
    /\ PurgeParked /\ LayerParked /\ CloudParked /\ BatchParked

ExplodePass ==
    /\ explode_pc = "loop"
    /\ HasInsert(msp)
    /\ msp' = ExplodePassOf(msp, doc_blocks)
    /\ Len(msp') <= SpaceCap
    /\ UNCHANGED <<explode_pc, space_in, doc_blocks, layers, purge_vars, layer_vars, cloud_vars, batch>>

ExplodeReturn ==
    /\ explode_pc = "loop"
    /\ ~HasInsert(msp)
    /\ explode_pc' = "done"
    /\ UNCHANGED <<msp, space_in, doc_blocks, layers, purge_vars, layer_vars, cloud_vars, batch>>

ExplodeNext == ExplodePass \/ ExplodeReturn

\* the loop is straight-line code: it takes its next step whenever it has one
SpecExplode ==
    ExplodeInit /\ [][ExplodeNext]_vars /\ WF_vars(ExplodePass) /\ WF_vars(ExplodeReturn)

-----------------------------------------------------------------------------
(* Properties of explode_drawing (under SpecExplode) *)

\* A -> B over all block definitions: A holds an INSERT naming B
InsertEdges(blocks) ==
    LET names == {blocks[i].name : i \in 1..Len(blocks)}
    IN  {ab \in names \X names :
            \E e \in Range(BlockDef(blocks, ab[1])) : e.type = "INSERT" /\ e.name = ab[2]}

\* the blocks the INSERTs of the space name, and all blocks those reach
ReachedBlocks(space, blocks) ==
    LET named == {space[i].name : i \in {j \in 1..Len(space) : space[j].type = "INSERT"}}
    IN  named \cup ReachIn(InsertEdges(blocks), named, Len(blocks))

\* some block reached from the space inserts itself, directly or transitively
ReachesCycle(space, blocks) ==
    LET edges == InsertEdges(blocks)
    IN  \E a \in ReachedBlocks(space, blocks) : a \in ReachIn(edges, {a}, Len(blocks))

-----------------------------------------------------------------------------
(* Specification SpecCloud: create_revcloud on a small primary space *)

CloudLayerNames == {"L1", "L2", "K"}

\* an entity read from a file; vertices identifies a polyline's vertex list
FileEntity(type, layer, closed, v) ==
    [type |-> type, name |-> "", layer |-> layer, is_closed |-> closed,
     vertices |-> v, revcloud |-> 0, style |-> "explicit"]

CloudShapes == {<<"LINE", FALSE>>, <<"LWPOLYLINE", FALSE>>, <<"LWPOLYLINE", TRUE>>}

CloudInit ==
    /\ \E n \in 0..MaxEntities :
       \E shapes \in [1..n -> CloudShapes] :
       \E on \in [1..n -> CloudLayerNames] :
          msp = [i \in 1..n |-> FileEntity(shapes[i][1], on[i], shapes[i][2], i)]
    /\ revcloud_layers \in SUBSET {"L1", "L2"}
    /\ space_in = msp
    /\ cloud_pc = "ready"
    /\ doc_blocks = <<>> /\ layers = <<>> /\ explode_pc = "off"
    /\ PurgeParked /\ LayerParked /\ BatchParked

CreateRevcloud ==
    /\ cloud_pc = "ready"
    /\ msp' = create_revcloud(msp, revcloud_layers, ArcRadius)
    /\ cloud_pc' = "done"
    /\ UNCHANGED <<revcloud_layers, space_in, explode_pc, doc_blocks, layers, purge_vars, layer_vars, batch>>

SpecCloud == CloudInit /\ [][CreateRevcloud]_vars

-----------------------------------------------------------------------------
(* Properties of create_revcloud (under SpecCloud) *)

CountOf(space, P(_)) == Cardinality({i \in 1..Len(space) : P(space[i])})

\* C5: for every eligible layer L, the pass leaves exactly as many clouds on
\* L as there were closed boundaries on L, every cloud lies on the layer of
\* the boundary it was built from, and no closed boundary that was on an
\* eligible layer is left.
C5_CloudPerBoundary ==
    cloud_pc = "done" =>
        /\ \A L \in revcloud_layers :
              CountOf(msp, LAMBDA e : e.revcloud # 0 /\ e.layer = L)
                  = CountOf(space_in, LAMBDA e : IsClosedBoundary(e) /\ e.layer = L)
        /\ \A i \in 1..Len(msp) :
              msp[i].revcloud # 0 =>
                  \E j \in 1..Len(space_in) :
                      /\ space_in[j].vertices = msp[i].vertices
                      /\ IsClosedBoundary(space_in[j])
                      /\ space_in[j].layer = msp[i].layer
        /\ \A j \in 1..Len(space_in) :
              (IsClosedBoundary(space_in[j]) /\ space_in[j].layer \in revcloud_layers)
                  => space_in[j] \notin Range(msp)

-----------------------------------------------------------------------------
(* Specification SpecBatch: adjust_layer over a directory of small files *)

FileInsert(name, layer) ==
    [type |-> "INSERT", name |-> name, layer |-> layer, is_closed |-> FALSE,
     vertices |-> 0, revcloud |-> 0, style |-> "explicit"]

\* what the primary space of an input file may hold
FileEntities ==
    {FileInsert("A", "0"), FileEntity("LWPOLYLINE", "X", TRUE, 1), FileEntity("IMAGE", "Y", FALSE, 0)}

\* input files: every layer an entity names is in the layer table
InputDocs ==
    {[layers    |-> [n \in {"0", "X", "Y", "Z"} |-> FileStyle],
      blocks    |-> BlockTable(<<"A">>, <<<<FileEntity("LINE", "X", FALSE, 0)>>>>),
      msp       |-> m,
      linetypes |-> {"Continuous"},
      styles    |-> {"Standard"}] : m \in SeqsUpTo(FileEntities, MaxEntities)}

\* logo files: one entity, on layer "0" or on a layer of the logo file's own
LogoDocs ==
    {[layers    |-> [n \in {"0", "LOGO"} |-> FileStyle],
      blocks    |-> BlockTable(<<"L">>, <<<<FileEntity("LINE", on, FALSE, 0)>>>>),
      msp       |-> <<FileInsert("L", "0")>>,
      linetypes |-> {"Continuous", "DASHED"},
      styles    |-> {"Standard", "LogoText"}] : on \in {"0", "LOGO"}}

Tables ==
    {<<>>,
     <<[currentLayer |-> "X", newLayer |-> Empty, colorID |-> Empty, lineweight |-> Empty],
       [currentLayer |-> "Q", newLayer |-> Cell("N"), colorID |-> Cell(7), lineweight |-> Cell(250)]>>}

\* the document being processed, as the three document variables and batch
Doc ==
    [layers |-> layers, blocks |-> doc_blocks, msp |-> msp,
     linetypes |-> batch.linetypes, styles |-> batch.styles]

BatchInit ==
    /\ \E n \in 1..MaxFiles :
       \E files \in [1..n -> InputDocs], logo \in LogoDocs, table \in Tables :
          batch = [files |-> files, logo |-> logo, table |-> table, i |-> 1, pc |-> "open",
                   saved |-> <<>>, failed |-> 0, linetypes |-> {}, styles |-> {}]
    /\ layers = <<>> /\ doc_blocks = <<>> /\ msp = <<>>
    /\ revcloud_layers = {"X", "fallback"}
    /\ space_in = <<>> /\ explode_pc = "off" /\ cloud_pc = "off"
    /\ PurgeParked /\ LayerParked

BatchRest == <<revcloud_layers, space_in, explode_pc, cloud_pc, purge_vars, layer_vars>>

\* for i, file in enumerate(files): doc = ezdxf.readfile(file_path)
BatchOpen ==
    /\ batch.pc = "open"
    /\ LET doc == batch.files[batch.i]
       IN  /\ layers' = doc.layers
           /\ doc_blocks' = doc.blocks
           /\ msp' = doc.msp
           /\ batch' = [batch EXCEPT !.pc = "explode", !.linetypes = doc.linetypes,
                                     !.styles = doc.styles]
    /\ UNCHANGED BatchRest

BatchExplode ==
    /\ batch.pc = "explode"
    /\ msp' = explode_drawing(msp, doc_blocks)
    /\ batch' = [batch EXCEPT !.pc = "purge"]
    /\ UNCHANGED <<layers, doc_blocks, BatchRest>>

BatchPurge ==
    /\ batch.pc = "purge"
    /\ doc_blocks' = purge_blocks(doc_blocks, msp, IterOf(doc_blocks))
    /\ batch' = [batch EXCEPT !.pc = "prune"]
    /\ UNCHANGED <<layers, msp, BatchRest>>

BatchPrune ==
    /\ batch.pc \in {"prune", "prune again"}
    /\ layers' = remove_unused_layers(layers, msp)
    /\ batch' = [batch EXCEPT !.pc = IF batch.pc = "prune" THEN "remap" ELSE "revcloud"]
    /\ UNCHANGED <<msp, doc_blocks, BatchRest>>

BatchRemap ==
    /\ batch.pc = "remap"
    /\ LET after == RemapTable(batch.table, layers, msp)
       IN  /\ layers' = after.layers
           /\ msp' = after.msp
    /\ batch' = [batch EXCEPT !.pc = "restyle"]
    /\ UNCHANGED <<doc_blocks, BatchRest>>

BatchRestyle ==
    /\ batch.pc = "restyle"
    /\ msp' = ResetStyles(msp)
    /\ batch' = [batch EXCEPT !.pc = "logos"]
    /\ UNCHANGED <<layers, doc_blocks, BatchRest>>

\* change_logos(logo_file, doc, msp); each copy succeeds or is skipped
BatchLogos ==
    /\ batch.pc = "logos"
    /\ \E ok \in [1..Len(explode_drawing(batch.logo.msp, batch.logo.blocks)) -> BOOLEAN] :
          LET after == change_logos(batch.logo, Doc, ok)
          IN  /\ msp' = after.msp
              /\ batch' = [batch EXCEPT !.pc = "prune again", !.linetypes = after.linetypes,
                                        !.styles = after.styles]
    /\ UNCHANGED <<layers, doc_blocks, BatchRest>>

BatchRevcloud ==
    /\ batch.pc = "revcloud"
    /\ msp' = create_revcloud(msp, revcloud_layers, ArcRadius)
    /\ batch' = [batch EXCEPT !.pc = "save"]
    /\ UNCHANGED <<layers, doc_blocks, BatchRest>>

\* doc.saveas(file_name), then the next file or the end of the loop
BatchSave ==
    /\ batch.pc = "save"
    /\ batch' = [batch EXCEPT !.saved = Append(batch.saved, batch.i),
                              !.i = batch.i + 1,
                              !.pc = IF batch.i < Len(batch.files) THEN "open" ELSE "returned"]
    /\ UNCHANGED <<layers, doc_blocks, msp, BatchRest>>

PerDocumentSteps ==
    {"explode", "purge", "prune", "remap", "restyle", "logos", "prune again", "revcloud"}

\* an exception no step catches: the loop of adjust_layer has no handler, so
\* it leaves adjust_layer
BatchUnhandled ==
    /\ batch.pc \in PerDocumentSteps
    /\ batch' = [batch EXCEPT !.pc = "raised", !.failed = batch.i]
    /\ UNCHANGED <<layers, doc_blocks, msp, BatchRest>>

BatchNext ==
    \/ BatchOpen \/ BatchExplode \/ BatchPurge \/ BatchPrune \/ BatchRemap
    \/ BatchRestyle \/ BatchLogos \/ BatchRevcloud \/ BatchSave \/ BatchUnhandled

SpecBatch == BatchInit /\ [][BatchNext]_vars

-----------------------------------------------------------------------------
(* Properties of adjust_layer (under SpecBatch) *)

\* C3: an unhandled failure in a per-document step skips only that document:
\* the batch runs to completion and every other document is processed.
C3_BatchSkipsOnlyFailed ==
    batch.pc \in {"returned", "raised"} =>
        /\ batch.pc = "returned"
        /\ \A k \in 1..Len(batch.files) : k # batch.failed => k \in Range(batch.saved)

\* C4: when the steps of one document have all completed, every entity of
\* the document names a layer of the document's layer table.
C4_EntityLayersExist ==
    batch.pc = "save" => \A i \in 1..Len(msp) : msp[i].layer \in DOMAIN layers

=============================================================================
